---------------------------- MODULE Spec2Model ----------------------------
(***************************************************************************)
(* Model of the AppStream lifecycle check core                             *)
(* (plugins/module_utils/appstream_check_core.py).                         *)
(*                                                                         *)
(* Python values are modelled as follows.                                  *)
(*   str         a sequence of one-character strings, <<"a", ":", "1">>    *)
(*   None        the record None                                           *)
(*   str | None | date (a field of a reference entry, the cutoff)          *)
(*               a tagged record: None, Str(s), Date(y, m, d)              *)
(*   list        a sequence                                                *)
(*   dict        a function; a key that is missing is outside its DOMAIN   *)
(*   a call      a record [ok |-> TRUE, val |-> v] when it returns v and   *)
(*               [ok |-> FALSE, exc |-> kind, arg |-> a] when it raises    *)
(***************************************************************************)
EXTENDS Integers, Sequences, FiniteSets, TLC

VARIABLES
    runtime_modern,              \* the interpreter is Python >= 3.11
    grouped_data,                \* evaluate_appstream_check: reference table
    target_major,                \* evaluate_appstream_check: target key
    selected_date,               \* evaluate_appstream_check: cutoff
    installed_dnf_modules_raw,   \* evaluate_appstream_check: stream key -> packages
    installed_packages,          \* evaluate_appstream_check: non-modular packages
    outcome,                     \* what the call to evaluate_appstream_check did
    rpm_lines,                   \* the lines the package query prints
    output,                      \* parse_rpm_modularity_output: the text it is given
    parsed,                      \* what the call to parse_rpm_modularity_output did
    os_release,                  \* detect_target_major: the os-release file
    params,                      \* main: the parameters of the run
    rpm_status,                  \* main: how the rpm command ends
    ended,                       \* main: how the run ended
    pc                           \* position of the caller

vars == <<runtime_modern, grouped_data, target_major, selected_date,
          installed_dnf_modules_raw, installed_packages, outcome,
          rpm_lines, output, parsed, os_release, params, rpm_status, ended, pc>>

-----------------------------------------------------------------------------
(* Python values *)

None == [t |-> "none"]
Str(s) == [t |-> "str", s |-> s]
Date(y, m, d) == [t |-> "date", y |-> y, m |-> m, d |-> d]

IsNone(v) == v.t = "none"
IsStr(v) == v.t = "str"
IsDate(v) == v.t = "date"

Returned(v) == [ok |-> TRUE, val |-> v]
Raised(kind, a) == [ok |-> FALSE, exc |-> kind, arg |-> a]

\* dict.get(key): None for a missing key
Get(d, k) == IF k \in DOMAIN d THEN d[k] ELSE None

\* dict.get(key, []) or []: a missing key gives [] (the lists of this model are
\* never None, which "or []" would turn into [] as well)
GetList(d, k) == IF k \in DOMAIN d THEN d[k] ELSE <<>>

-----------------------------------------------------------------------------
(* Python str operations, on sequences of characters *)

Digits == {"0", "1", "2", "3", "4", "5", "6", "7", "8", "9"}
Whitespace == {" ", "\t", "\n", "\r"}

\* code point of a character: the order Python sorts strings by
Ord(c) ==
    CASE c = "\t" -> 9
      [] c = "\n" -> 10
      [] c = "\r" -> 13
      [] c = " " -> 32
      [] c = "(" -> 40
      [] c = ")" -> 41
      [] c = "+" -> 43
      [] c = "-" -> 45
      [] c = "." -> 46
      [] c = "0" -> 48
      [] c = "1" -> 49
      [] c = "2" -> 50
      [] c = "3" -> 51
      [] c = "4" -> 52
      [] c = "5" -> 53
      [] c = "6" -> 54
      [] c = "7" -> 55
      [] c = "8" -> 56
      [] c = "9" -> 57
      [] c = ":" -> 58
      [] c = "a" -> 97
      [] c = "b" -> 98
      [] c = "c" -> 99
      [] c = "e" -> 101
      [] c = "l" -> 108
      [] c = "n" -> 110
      [] c = "o" -> 111
      [] c = "x" -> 120

DigitVal(c) == Ord(c) - Ord("0")

\* s < t for Python strings: by code point, a proper prefix first
RECURSIVE StrLess(_, _)
StrLess(s, t) ==
    IF t = <<>> THEN FALSE
    ELSE IF s = <<>> THEN TRUE
    ELSE IF Head(s) = Head(t) THEN StrLess(Tail(s), Tail(t))
    ELSE Ord(Head(s)) < Ord(Head(t))

RECURSIVE LStrip(_)
LStrip(s) ==
    IF s # <<>> /\ Head(s) \in Whitespace THEN LStrip(Tail(s)) ELSE s

RECURSIVE RStrip(_)
RStrip(s) ==
    IF s # <<>> /\ s[Len(s)] \in Whitespace
    THEN RStrip(SubSeq(s, 1, Len(s) - 1)) ELSE s

\* str.strip()
Strip(s) == LStrip(RStrip(s))

\* index of the first c in s, 0 when there is none
RECURSIVE FindFrom(_, _, _)
FindFrom(s, c, i) ==
    IF i > Len(s) THEN 0
    ELSE IF s[i] = c THEN i ELSE FindFrom(s, c, i + 1)

Find(s, c) == FindFrom(s, c, 1)

\* str.split(c): the parts between every occurrence of c
RECURSIVE Split(_, _)
Split(s, c) ==
    LET i == Find(s, c)
    IN IF i = 0 THEN <<s>>
       ELSE <<SubSeq(s, 1, i - 1)>> \o Split(SubSeq(s, i + 1, Len(s)), c)

\* str.split(c, 1): at most one split, at the first c
Split1(s, c) ==
    LET i == Find(s, c)
    IN IF i = 0 THEN <<s>>
       ELSE <<SubSeq(s, 1, i - 1), SubSeq(s, i + 1, Len(s))>>

\* str.isdigit() on a non-empty string of this alphabet
AllDigits(s) == s # <<>> /\ \A i \in 1..Len(s) : s[i] \in Digits

\* sorted(set(...)): the elements of S ascending, each once
RECURSIVE SortedSet(_)
SortedSet(S) ==
    IF S = {} THEN <<>>
    ELSE LET least == CHOOSE x \in S : \A y \in S \ {x} : StrLess(x, y)
         IN <<least>> \o SortedSet(S \ {least})

\* set(list)
Range(q) == {q[i] : i \in 1..Len(q)}

-----------------------------------------------------------------------------
(* datetime.date and int(), as parse_date uses them *)

\* the largest value CPython passes to date() as a C int
CIntMax == 2147483647

\* value of a string of digits, or big when it does not fit a C int
RECURSIVE DigitsValue(_, _)
DigitsValue(s, acc) ==
    IF s = <<>> THEN [big |-> FALSE, v |-> acc]
    ELSE LET d == DigitVal(Head(s))
         IN IF acc > (CIntMax - d) \div 10
            THEN [big |-> TRUE, v |-> 0]
            ELSE DigitsValue(Tail(s), acc * 10 + d)

\* the digits of a stripped text after its sign, if it has one
IntBody(t) == IF t # <<>> /\ Head(t) \in {"+", "-"} THEN Tail(t) ELSE t

IntSigned(negative, n) ==
    [big |-> n.big, v |-> IF negative THEN 0 - n.v ELSE n.v]

IntOfBody(body, negative, s) ==
    IF ~AllDigits(body) THEN Raised("ValueError", s)
    ELSE Returned(IntSigned(negative, DigitsValue(body, 0)))

IntOfText(t, s) == IntOfBody(IntBody(t), t # <<>> /\ Head(t) = "-", s)

\* int(text): surrounding whitespace and one sign are allowed, then digits only;
\* Python integers are unbounded, so a long digit string is still an int
IntParse(s) == IntOfText(Strip(s), s)

IsLeap(y) == y % 4 = 0 /\ (y % 100 # 0 \/ y % 400 = 0)

DaysInMonth(y, m) ==
    IF m = 2 THEN (IF IsLeap(y) THEN 29 ELSE 28)
    ELSE IF m \in {4, 6, 9, 11} THEN 30 ELSE 31

IsCalendarDate(y, m, d) ==
    /\ y >= 1 /\ y <= 9999
    /\ m >= 1 /\ m <= 12
    /\ d >= 1 /\ d <= DaysInMonth(y, m)

\* date(y, m, d) on three Python ints: an argument that does not fit a C int is
\* an OverflowError, a value out of range a ValueError
DateCtor(y, m, d) ==
    IF y.big \/ m.big \/ d.big THEN Raised("OverflowError", None)
    ELSE IF ~IsCalendarDate(y.v, m.v, d.v) THEN Raised("ValueError", None)
    ELSE Returned(Date(y.v, m.v, d.v))

\* DateLess with the comparison not strict
DateLessOrEqual(a, b) ==
    \/ a.y < b.y
    \/ a.y = b.y /\ a.m < b.m
    \/ a.y = b.y /\ a.m = b.m /\ a.d <= b.d

\* a < b for two dates
DateLess(a, b) ==
    \/ a.y < b.y
    \/ a.y = b.y /\ a.m < b.m
    \/ a.y = b.y /\ a.m = b.m /\ a.d < b.d

\* the number written at positions i..j of a text
NumAt(text, i, j) == DigitsValue(SubSeq(text, i, j), 0).v

\* YYYY-MM-DD
IsExtendedFormat(text) ==
    /\ Len(text) = 10
    /\ text[5] = "-" /\ text[8] = "-"
    /\ AllDigits(SubSeq(text, 1, 4))
    /\ AllDigits(SubSeq(text, 6, 7))
    /\ AllDigits(SubSeq(text, 9, 10))

\* YYYYMMDD
IsBasicFormat(text) == Len(text) = 8 /\ AllDigits(text)

DateIfCalendar(y, m, d) ==
    IF IsCalendarDate(y, m, d) THEN Returned(Date(y, m, d))
    ELSE Raised("ValueError", None)

\* date.fromisoformat(text).  Every runtime reads YYYY-MM-DD; Python >= 3.11 also
\* reads YYYYMMDD (and the week forms, which need a W: no text of this model
\* has one).  Digits are never padded or signed here.
FromIsoFormat(text, modern) ==
    IF IsExtendedFormat(text)
    THEN DateIfCalendar(NumAt(text, 1, 4), NumAt(text, 6, 7), NumAt(text, 9, 10))
    ELSE IF modern /\ IsBasicFormat(text)
    THEN DateIfCalendar(NumAt(text, 1, 4), NumAt(text, 5, 6), NumAt(text, 7, 8))
    ELSE Raised("ValueError", None)

\* str(value) for the values parse_date is given
StrOf(value) == IF IsStr(value) THEN value.s ELSE <<"N", "o", "n", "e">>

\* except (ValueError, IndexError, TypeError): pass, then raise ValueError with
\* the value given; the OverflowError of date() is not among the exceptions caught
FallbackResult(made, value) ==
    IF made.ok \/ made.exc = "OverflowError" THEN made
    ELSE Raised("ValueError", value)

\* _date(int(parts[0]), int(parts[1]), int(parts[2]))
FallbackDate(y, m, d, value) ==
    IF y.ok /\ m.ok /\ d.ok THEN FallbackResult(DateCtor(y.val, m.val, d.val), value)
    ELSE Raised("ValueError", value)

\* the fallback: parts = text.split("-"), three of them
FallbackParse(parts, value) ==
    IF Len(parts) = 3
    THEN FallbackDate(IntParse(parts[1]), IntParse(parts[2]), IntParse(parts[3]), value)
    ELSE Raised("ValueError", value)

ParseText(iso, text, value) ==
    IF iso.ok THEN iso ELSE FallbackParse(Split(text, "-"), value)

ParseStripped(text, value, modern) ==
    ParseText(FromIsoFormat(text, modern), text, value)

\* parse_date(value): a date is returned as it is; a string is stripped, read by
\* fromisoformat, then by the split on "-"; a ValueError carries the value given
parse_date(value, modern) ==
    IF IsDate(value) THEN Returned(value)
    ELSE ParseStripped(Strip(StrOf(value)), value, modern)

-----------------------------------------------------------------------------
(* evaluate_appstream_check *)

\* bool(value) of a name or stream field: None and "" are false
Truthy(v) == IsStr(v) /\ v.s # <<>>

\* _is_retired had it taken the entries that end after the cutoff
retired_when_later(end, cutoff) ==
    IF end.ok THEN Returned(DateLess(cutoff, end.val))
    ELSE IF end.exc = "ValueError" THEN Returned(FALSE)
    ELSE end

\* return parse_date(end_date_raw) < cutoff; except ValueError: return False
RetiredOf(end, cutoff) ==
    IF end.ok THEN Returned(DateLess(end.val, cutoff))
    ELSE IF end.exc = "ValueError" THEN Returned(FALSE)
    ELSE end

\* _is_retired(end_date_raw, cutoff): None and "" are not retired; a ValueError of
\* parse_date is swallowed; any other exception of parse_date leaves the call
_is_retired(end_date_raw, cutoff, modern) ==
    IF end_date_raw = None \/ end_date_raw = Str(<<>>) THEN Returned(FALSE)
    ELSE RetiredOf(parse_date(end_date_raw, modern), cutoff)

\* the entries of a reference list whose end date makes _is_retired raise
Raising(items, cutoff, modern) ==
    {i \in 1..Len(items) : ~_is_retired(Get(items[i], "end_date"), cutoff, modern).ok}

\* reference_package_names: names of the retired package entries with a name
reference_package_names(packages_data, cutoff, modern) ==
    SortedSet({StrOf(Get(packages_data[i], "name")) :
                 i \in {j \in 1..Len(packages_data) :
                          /\ _is_retired(Get(packages_data[j], "end_date"), cutoff, modern).val
                          /\ Truthy(Get(packages_data[j], "name"))}})

\* reference_module_names without the test of the stream
reference_module_names_any_stream(modules_data, cutoff, modern) ==
    SortedSet({StrOf(Get(modules_data[i], "name")) \o <<":">> \o StrOf(Get(modules_data[i], "stream")) :
                 i \in {j \in 1..Len(modules_data) :
                          /\ _is_retired(Get(modules_data[j], "end_date"), cutoff, modern).val
                          /\ Get(modules_data[j], "name") \notin {None, Str(<<>>)}
                          /\ Get(modules_data[j], "stream") # None}})

\* reference_module_names: "name:stream" of the retired dnf_module entries with
\* a name and a stream
reference_module_names(modules_data, cutoff, modern) ==
    SortedSet({StrOf(Get(modules_data[i], "name")) \o <<":">> \o StrOf(Get(modules_data[i], "stream")) :
                 i \in {j \in 1..Len(modules_data) :
                          /\ _is_retired(Get(modules_data[j], "end_date"), cutoff, modern).val
                          /\ Get(modules_data[j], "name") \notin {None, Str(<<>>)}
                          /\ Get(modules_data[j], "stream") \notin {None, Str(<<>>)}}})

\* retired_installed_packages = sorted(set(installed).intersection(reference))
retired_installed_packages(installed, reference) ==
    SortedSet(Range(installed) \cap Range(reference))

\* installed_dnf_modules = sorted(set(raw.keys()).intersection(reference))
installed_dnf_modules(raw, reference) ==
    SortedSet(DOMAIN raw \cap Range(reference))

\* matched_dnf_modules_packages over every installed stream key
matched_dnf_modules_packages_all_keys(matched, raw) ==
    SortedSet(UNION {Range(raw[k]) : k \in DOMAIN raw})

\* matched_dnf_modules_packages: the packages of the matched stream keys
matched_dnf_modules_packages(matched, raw) ==
    SortedSet(UNION {Range(raw[matched[i]]) : i \in 1..Len(matched)})

\* any_match that looks at the packages only
any_match_packages_only(matched_packages, matched_modules) ==
    matched_packages # <<>>

\* any_match = bool(retired_installed_packages or installed_dnf_modules)
any_match(matched_packages, matched_modules) ==
    matched_packages # <<>> \/ matched_modules # <<>>

\* packages_to_remove without set() and sorted()
packages_to_remove_concatenated(matched_packages, matched_modules_packages) ==
    matched_packages \o matched_modules_packages

\* packages_to_remove = sorted(set(matched_packages + matched_dnf_modules_packages))
packages_to_remove(matched_packages, matched_modules_packages) ==
    SortedSet(Range(matched_packages \o matched_modules_packages))

\* major_data with a missing key read as an empty record
major_data_default_empty(table, target) ==
    IF Get(table, target) = None THEN Returned(<<>>)
    ELSE Returned(Get(table, target))

\* major_data = grouped_data.get(target_major); None raises KeyError(target_major)
major_data(table, target) ==
    IF Get(table, target) = None THEN Raised("KeyError", target)
    ELSE Returned(Get(table, target))

\* the result dict and the removal list
ResultOf(target, pkgs, mods, mod_pkgs) ==
    Returned([appstream_check_result |->
                 [target_major |-> target,
                  matched_packages |-> pkgs,
                  matched_dnf_modules |-> mods,
                  matched_dnf_modules_packages |-> mod_pkgs,
                  any_match |-> any_match(pkgs, mods)],
              packages_to_remove |-> packages_to_remove(pkgs, mod_pkgs)])

MatchModulePackages(target, raw, pkgs, mods) ==
    ResultOf(target, pkgs, mods, matched_dnf_modules_packages(mods, raw))

\* the matching had the packages of the installed streams been looked up among
\* the retired `package` names as well
match_installed_one_namespace(target, raw, installed, ref_packages, ref_modules) ==
    MatchModulePackages(
        target, raw,
        retired_installed_packages(
            installed \o SortedSet(UNION {Range(raw[k]) : k \in DOMAIN raw}),
            ref_packages),
        installed_dnf_modules(raw, ref_modules))

MatchInstalled(target, raw, installed, ref_packages, ref_modules) ==
    MatchModulePackages(target, raw,
                        retired_installed_packages(installed, ref_packages),
                        installed_dnf_modules(raw, ref_modules))

\* the two reference sets; an exception that leaves _is_retired leaves the call
BuildReferences(packages_data, modules_data, cutoff, target, raw, installed, modern) ==
    IF Raising(packages_data, cutoff, modern) # {} \/ Raising(modules_data, cutoff, modern) # {}
    THEN Raised("OverflowError", None)
    ELSE MatchInstalled(target, raw, installed,
                        reference_package_names(packages_data, cutoff, modern),
                        reference_module_names(modules_data, cutoff, modern))

WithMajorData(major, cutoff, target, raw, installed, modern) ==
    IF ~major.ok THEN major
    ELSE BuildReferences(GetList(major.val, "package"), GetList(major.val, "dnf_module"),
                         cutoff, target, raw, installed, modern)

WithCutoff(cutoff, table, target, raw, installed, modern) ==
    IF ~cutoff.ok THEN cutoff
    ELSE WithMajorData(major_data(table, target), cutoff.val, target, raw, installed, modern)

\* the call had the target key been looked up before the cutoff is parsed
evaluate_lookup_first(table, target, date, raw, installed, modern) ==
    IF ~major_data(table, target).ok THEN major_data(table, target)
    ELSE WithCutoff(parse_date(date, modern), table, target, raw, installed, modern)

\* evaluate_appstream_check(grouped_data, target_major, selected_date,
\*                          installed_dnf_modules_raw, installed_packages):
\* the cutoff is parsed first, then the target key is looked up
evaluate_appstream_check(table, target, date, raw, installed, modern) ==
    WithCutoff(parse_date(date, modern), table, target, raw, installed, modern)

\* The mutable arguments of the call, as the caller finds them when the call has
\* returned or raised.

\* the arguments had installed_packages been sorted and deduplicated in place
arguments_with_packages_sorted(table, raw, installed) ==
    [grouped_data |-> table,
     installed_dnf_modules_raw |-> raw,
     installed_packages |-> SortedSet(Range(installed))]

\* the call reads its arguments with get(), keys(), iteration, set() and +,
\* and never assigns into them nor calls a method that changes them
arguments_after_call(table, raw, installed) ==
    [grouped_data |-> table,
     installed_dnf_modules_raw |-> raw,
     installed_packages |-> installed]

\* a list object: one made by the call at a line of the source, or one the
\* caller passed in
NewList(line) == [object |-> "new", line |-> line]
Argument(name) == [object |-> "argument", name |-> name]

\* the list objects the call returns: each is the value of a call of sorted(),
\* which makes a new list
returned_lists ==
    [matched_packages |-> NewList(145),
     matched_dnf_modules |-> NewList(146),
     matched_dnf_modules_packages |-> NewList(148),
     packages_to_remove |-> NewList(157)]

-----------------------------------------------------------------------------
(* parse_rpm_modularity_output *)

LineBreaks == {"\n", "\r"}

\* index of the first line break in s, 0 when there is none
RECURSIVE FindBreak(_, _)
FindBreak(s, i) ==
    IF i > Len(s) THEN 0
    ELSE IF s[i] \in LineBreaks THEN i ELSE FindBreak(s, i + 1)

\* str.splitlines(): the lines between the breaks \n, \r and \r\n; no last
\* empty line after a final break
RECURSIVE SplitLines(_)
SplitLines(s) ==
    LET i == FindBreak(s, 1)
        crlf == i > 0 /\ i < Len(s) /\ s[i] = "\r" /\ s[i + 1] = "\n"
        next == IF crlf THEN i + 2 ELSE i + 1
    IN IF s = <<>> THEN <<>>
       ELSE IF i = 0 THEN <<s>>
       ELSE <<SubSeq(s, 1, i - 1)>> \o SplitLines(SubSeq(s, next, Len(s)))

NoneLabel == <<"(", "n", "o", "n", "e", ")">>

\* the stream key with every component of the label
stream_key_whole_label(label_parts) ==
    IF Len(label_parts) = 2 THEN label_parts[1] \o <<":">> \o label_parts[2]
    ELSE label_parts[1] \o <<":">> \o label_parts[2] \o <<":">> \o label_parts[3]

\* key = f"{label_parts[0]}:{label_parts[1]}"
stream_key(label_parts) == label_parts[1] \o <<":">> \o label_parts[2]

\* modules_raw.setdefault(key, []).append(package_name)
SetDefaultAppend(modules_raw, key, package_name) ==
    IF key \in DOMAIN modules_raw
    THEN [modules_raw EXCEPT ![key] = Append(@, package_name)]
    ELSE modules_raw @@ (key :> <<package_name>>)

\* no line is skipped
NeverSkipped(line) == FALSE

\* if not line: continue, on the stripped line
IsSkipped(line) == line = <<>>

\* ParseLines that stops at a line it cannot read and returns what it has
RECURSIVE ParseLinesPartial(_, _, _)
ParseLinesPartial(lines, modules_raw, installed) ==
    IF lines = <<>>
    THEN Returned([modules_raw |-> modules_raw,
                   installed_packages |-> SortedSet(Range(installed))])
    ELSE LET line == Strip(Head(lines))
             parts == Split1(line, " ")
             package_name == Strip(parts[1])
             label == Strip(parts[2])
             label_parts == Split(label, ":")
         IN IF IsSkipped(line) THEN ParseLinesPartial(Tail(lines), modules_raw, installed)
            ELSE IF Len(parts) # 2
            THEN ParseLinesPartial(<<>>, modules_raw, installed)
            ELSE IF label = NoneLabel
            THEN ParseLinesPartial(Tail(lines), modules_raw, Append(installed, package_name))
            ELSE IF Len(label_parts) < 2 \/ label_parts[1] = <<>> \/ label_parts[2] = <<>>
            THEN ParseLinesPartial(<<>>, modules_raw, installed)
            ELSE ParseLinesPartial(Tail(lines),
                                   SetDefaultAppend(modules_raw, stream_key(label_parts),
                                                    package_name),
                                   installed)

\* the loop over the lines: blank lines are skipped, a line without a space and
\* a label that is not name:stream raise ValueError, nothing is returned then
RECURSIVE ParseLines(_, _, _)
ParseLines(lines, modules_raw, installed) ==
    IF lines = <<>>
    THEN Returned([modules_raw |-> modules_raw,
                   installed_packages |-> SortedSet(Range(installed))])
    ELSE LET line == Strip(Head(lines))
             parts == Split1(line, " ")
             package_name == Strip(parts[1])
             label == Strip(parts[2])
             label_parts == Split(label, ":")
         IN IF IsSkipped(line) THEN ParseLines(Tail(lines), modules_raw, installed)
            ELSE IF Len(parts) # 2
            THEN Raised("ValueError",
                        [msg |-> "Unexpected rpm output line", line |-> line])
            ELSE IF label = NoneLabel
            THEN ParseLines(Tail(lines), modules_raw, Append(installed, package_name))
            ELSE IF Len(label_parts) < 2 \/ label_parts[1] = <<>> \/ label_parts[2] = <<>>
            THEN Raised("ValueError",
                        [msg |-> "Invalid MODULARITYLABEL format",
                         package |-> package_name, label |-> label])
            ELSE ParseLines(Tail(lines),
                            SetDefaultAppend(modules_raw, stream_key(label_parts),
                                             package_name),
                            installed)

\* the packages of every stream of a mapping
PackagesOf(modules_raw) == UNION {Range(modules_raw[k]) : k \in DOMAIN modules_raw}

\* the inventory with the modular packages in the non-modular list too
ListedTwice(r) ==
    IF r.ok
    THEN Returned([modules_raw |-> r.val.modules_raw,
                   installed_packages |->
                       SortedSet(Range(r.val.installed_packages)
                                    \cup PackagesOf(r.val.modules_raw))])
    ELSE r

\* a parser that lists every package as non-modular
parse_listing_every_package(text) == ListedTwice(ParseLines(SplitLines(text), <<>>, <<>>))

\* parse_rpm_modularity_output(output)
parse_rpm_modularity_output(text) == ParseLines(SplitLines(text), <<>>, <<>>)

-----------------------------------------------------------------------------
(* the inputs of the model *)

\* at most this many entries in the record of the target key
MaxEntries == 2
\* at most this many installed non-modular packages
MaxInstalled == 2

SeqsOfLen(S, k) == [1..k -> S]
SeqsUpTo(S, n) == UNION {SeqsOfLen(S, k) : k \in 0..n}

A == <<"a">>
B == <<"b">>
El8 == <<"e", "l", "8">>
El9 == <<"e", "l", "9">>
KeyA1 == <<"a", ":", "1">>
KeyB1 == <<"b", ":", "1">>
KeyANoStream == <<"a", ":">>

Feb1Unpadded == <<"2", "0", "2", "6", "-", "2", "-", "1">>
Feb17 == <<"2", "0", "2", "6", "-", "0", "2", "-", "1", "7">>
Mar1Spaced == <<" ", "2", "0", "2", "6", "-", "3", "-", "1">>
Garbage == <<" ", "x">>
Jan1Basic == <<"2", "0", "2", "0", "0", "1", "0", "1">>
TooBig == <<"2", "1", "4", "7", "4", "8", "3", "6", "4", "8", "-", "1", "-", "1">>

ValidCutoffs == {Str(Feb17), Date(2026, 2, 1), Str(Mar1Spaced)}
InvalidCutoffs == {Str(Garbage), Str(TooBig)}
\* a date to Python >= 3.11 only
RuntimeCutoffs == {Str(Jan1Basic)}

\* entries of the `package` list: two names, one of them with two end dates
PackageEntries ==
    { [name |-> Str(A), end_date |-> Str(Feb1Unpadded)],
      [name |-> Str(B), end_date |-> Date(2026, 2, 17)],
      [name |-> Str(B), end_date |-> Date(2020, 1, 1)],
      [name |-> Str(A), end_date |-> None] }

\* entries of the `dnf_module` list: two streams, an empty stream, a missing name
ModuleEntries ==
    { [name |-> Str(A), stream |-> Str(<<"1">>), end_date |-> Str(Feb1Unpadded)],
      [name |-> Str(B), stream |-> Str(<<"1">>), end_date |-> Date(2026, 2, 17)],
      [name |-> Str(A), stream |-> Str(<<>>), end_date |-> Date(2020, 1, 1)],
      [stream |-> Str(<<"1">>), end_date |-> Date(2020, 1, 1)] }

\* records of a target key with at most MaxEntries entries in all
Records ==
    UNION {[package : SeqsOfLen(PackageEntries, i),
            dnf_module : SeqsOfLen(ModuleEntries, j)] :
              <<i, j>> \in {ij \in (0..MaxEntries) \X (0..MaxEntries) :
                              ij[1] + ij[2] <= MaxEntries}}

\* the record of the other key: everything in it is long retired
OtherRecord ==
    [package |-> <<[name |-> Str(A), end_date |-> Date(2020, 1, 1)],
                   [name |-> Str(B), end_date |-> Date(2020, 1, 1)]>>,
     dnf_module |-> <<[name |-> Str(A), stream |-> Str(<<"1">>),
                       end_date |-> Date(2020, 1, 1)]>>]

\* records without fields, without entries, with end dates that are no dates,
\* with an entry without a name, and with an end date too big for date()
SpecialRecords ==
    { <<>>,
      [package |-> <<>>],
      [package |-> <<>>, dnf_module |-> <<>>],
      [package |-> <<[name |-> Str(A), end_date |-> Str(Garbage)],
                     [name |-> Str(B), end_date |-> Str(<<>>)]>>,
       dnf_module |-> <<[name |-> Str(A), stream |-> Str(<<"1">>), end_date |-> None],
                        [name |-> Str(A), stream |-> Str(<<"1">>)]>>],
      [package |-> <<[end_date |-> Date(2020, 1, 1)],
                     [name |-> Str(<<>>), end_date |-> Date(2020, 1, 1)],
                     [name |-> Str(B), end_date |-> Date(2020, 1, 1)]>>],
      [package |-> <<[name |-> Str(A), end_date |-> Str(Jan1Basic)]>>],
      [package |-> <<[name |-> Str(A), end_date |-> Str(TooBig)]>>],
      [package |-> <<[name |-> Str(A), end_date |-> Date(2020, 1, 1)]>>,
       dnf_module |-> <<[name |-> Str(B), stream |-> Str(<<"1">>),
                         end_date |-> Str(TooBig)]>>] }

\* tables in which a key is missing, is None, or has a special record
SpecialTables ==
    {<<>>, (El8 :> OtherRecord), (El9 :> None)}
        \cup {(El9 :> r) : r \in SpecialRecords}
        \cup {(El8 :> OtherRecord) @@ (El9 :> r) : r \in SpecialRecords}

\* stream key -> packages installed from it, as the caller hands it over
ModuleMaps ==
    { <<>>,
      (KeyA1 :> <<B, A>>),
      (KeyA1 :> <<A>>) @@ (KeyB1 :> <<B, B>>),
      (KeyANoStream :> <<A>>) @@ (KeyB1 :> <<A>>),
      (KeyB1 :> <<B>>) }

Unset == [ok |-> FALSE, exc |-> "unset", arg |-> None]

\* the parts of the state a specification leaves aside
NoOsRelease == [exists |-> "no", read |-> "ok", lines |-> <<>>]
NoParams == [target_major |-> None, date |-> None, fail_on_match |-> FALSE]
Aside ==
    /\ os_release = NoOsRelease
    /\ params = NoParams
    /\ rpm_status = "ok"
    /\ ended = Unset

InitRest ==
    /\ outcome = Unset
    /\ rpm_lines = <<>>
    /\ output = <<>>
    /\ parsed = Unset
    /\ Aside
    /\ pc = "call"

\* calls with a valid cutoff on a table that has the target key
InitMatching ==
    /\ installed_packages \in SeqsUpTo({A, B}, MaxInstalled)
    /\ installed_dnf_modules_raw \in ModuleMaps
    /\ grouped_data \in {(El8 :> OtherRecord) @@ (El9 :> r) : r \in Records}
    /\ target_major = El9
    /\ selected_date \in ValidCutoffs
    /\ runtime_modern = TRUE

\* calls with any cutoff on a table with or without the target key
InitLookup ==
    /\ installed_packages \in {<<>>, <<B, A>>}
    /\ installed_dnf_modules_raw \in {<<>>, (KeyA1 :> <<B, A>>)}
    /\ grouped_data \in SpecialTables
    /\ target_major \in {El8, El9}
    /\ selected_date \in ValidCutoffs \cup InvalidCutoffs \cup RuntimeCutoffs
    /\ runtime_modern \in BOOLEAN

Init == (InitMatching \/ InitLookup) /\ InitRest

\* one call of evaluate_appstream_check
Evaluate ==
    /\ pc = "call"
    /\ outcome' = evaluate_appstream_check(grouped_data, target_major, selected_date,
                                           installed_dnf_modules_raw, installed_packages,
                                           runtime_modern)
    /\ grouped_data' = arguments_after_call(grouped_data, installed_dnf_modules_raw,
                                             installed_packages).grouped_data
    /\ installed_dnf_modules_raw' =
           arguments_after_call(grouped_data, installed_dnf_modules_raw,
                                installed_packages).installed_dnf_modules_raw
    /\ installed_packages' = arguments_after_call(grouped_data, installed_dnf_modules_raw,
                                                   installed_packages).installed_packages
    /\ pc' = "done"
    /\ UNCHANGED <<runtime_modern, target_major, selected_date,
                   rpm_lines, output, parsed,
                   os_release, params, rpm_status, ended>>

Next == Evaluate

Spec == Init /\ [][Next]_vars

-----------------------------------------------------------------------------
(* the package query and the parser of its output *)

MaxLines == 3

\* a line of the query: the package name and the components of its label; a
\* line without components has no second column
Line(name, label) == [name |-> name, label |-> label]

LinePool ==
    { Line(A, <<NoneLabel>>),
      Line(B, <<NoneLabel>>),
      Line(A, <<A, <<"1">>>>),
      Line(B, <<A, <<"1">>, <<"c">>>>),
      Line(A, <<B, <<"1">>>>),
      Line(<<>>, <<>>),
      Line(<<" ", "\t">>, <<>>),
      Line(<<"x">>, <<>>),
      Line(A, <<<<"1">>>>),
      Line(A, <<<<>>, <<"1">>>>),
      Line(A, <<A, <<>>>>) }

RECURSIVE JoinColon(_)
JoinColon(parts) ==
    IF parts = <<>> THEN <<>>
    ELSE IF Len(parts) = 1 THEN parts[1]
    ELSE parts[1] \o <<":">> \o JoinColon(Tail(parts))

\* "%{NAME} %{MODULARITYLABEL}\n" for one line
QueryFormat(line) ==
    IF line.label = <<>> THEN line.name \o <<"\n">>
    ELSE line.name \o <<" ">> \o JoinColon(line.label) \o <<"\n">>

RECURSIVE QueryOutput(_)
QueryOutput(lines) ==
    IF lines = <<>> THEN <<>>
    ELSE QueryFormat(Head(lines)) \o QueryOutput(Tail(lines))

InitParse ==
    /\ rpm_lines \in SeqsUpTo(LinePool, MaxLines)
    /\ runtime_modern = TRUE
    /\ grouped_data = <<>>
    /\ target_major = El9
    /\ selected_date = Str(Feb17)
    /\ installed_dnf_modules_raw = <<>>
    /\ installed_packages = <<>>
    /\ outcome = Unset
    /\ output = <<>>
    /\ parsed = Unset
    /\ Aside
    /\ pc = "query"

\* the rpm command prints its lines
RunQuery ==
    /\ pc = "query"
    /\ output' = QueryOutput(rpm_lines)
    /\ pc' = "parse"
    /\ UNCHANGED <<runtime_modern, grouped_data, target_major, selected_date,
                   installed_dnf_modules_raw, installed_packages, outcome,
                   rpm_lines, parsed,
                   os_release, params, rpm_status, ended>>

\* one call of parse_rpm_modularity_output on the printed text
Parse ==
    /\ pc = "parse"
    /\ parsed' = parse_rpm_modularity_output(output)
    /\ pc' = "parsed"
    /\ UNCHANGED <<runtime_modern, grouped_data, target_major, selected_date,
                   installed_dnf_modules_raw, installed_packages, outcome,
                   rpm_lines, output,
                   os_release, params, rpm_status, ended>>

NextParse == RunQuery \/ Parse

SpecParse == InitParse /\ [][NextParse]_vars

-----------------------------------------------------------------------------
(* parse_date on its own *)

\* the components of the texts parse_date is given: padded, unpadded, signed,
\* out of range, too big for a C int, not a number, empty
YearTexts ==
    { <<"2", "0", "2", "6">>, <<"2", "0", "2", "4">>, <<"2", "6">>, <<"0">>,
      <<"2", "1", "4", "7", "4", "8", "3", "6", "4", "8">>, <<"x">>, <<>> }
MonthTexts == { <<"2">>, <<"0", "2">>, <<"+", "2">>, <<"1", "3">>, <<"x">> }
DayTexts == { <<"1">>, <<"0", "1">>, <<"2", "9">>, <<"3", "0">>, <<"3", "1">>, <<>> }
Margins == { <<>>, <<" ">> }

\* "<y>-<m>-<d>" with a margin of whitespace on both sides
Encoding(y, m, d, margin) == margin \o y \o <<"-">> \o m \o <<"-">> \o d \o margin

EncodedDates ==
    {Encoding(y, m, d, w) : y \in YearTexts, m \in MonthTexts, d \in DayTexts, w \in Margins}

\* texts that are not three components
OtherTexts ==
    { <<>>, Garbage, Jan1Basic,
      <<"2", "0", "2", "6", "-", "0", "2">>,
      <<"2", "0", "2", "6", "-", "0", "2", "-", "0", "1", "-", "0", "1">> }

DateObjects == {Date(2026, 2, 1), Date(2024, 2, 29)}

InitDate ==
    /\ selected_date \in {Str(s) : s \in EncodedDates \cup OtherTexts} \cup DateObjects
    /\ runtime_modern \in BOOLEAN
    /\ grouped_data = <<>>
    /\ target_major = El9
    /\ installed_dnf_modules_raw = <<>>
    /\ installed_packages = <<>>
    /\ outcome = Unset
    /\ rpm_lines = <<>>
    /\ output = <<>>
    /\ parsed = Unset
    /\ Aside
    /\ pc = "parse_date"

\* one call of parse_date
ParseDate ==
    /\ pc = "parse_date"
    /\ outcome' = parse_date(selected_date, runtime_modern)
    /\ pc' = "date_done"
    /\ UNCHANGED <<runtime_modern, grouped_data, target_major, selected_date,
                   installed_dnf_modules_raw, installed_packages,
                   rpm_lines, output, parsed,
                   os_release, params, rpm_status, ended>>

NextDate == ParseDate

SpecDate == InitDate /\ [][NextDate]_vars

-----------------------------------------------------------------------------
(* detect_target_major *)

\* The os-release file is [exists, read, lines]: what path.exists() does ("yes",
\* "no", or "OSError" when stat fails for another reason than a missing file and
\* Path.exists() passes the error on), whether opening and reading it works
\* ("ok" or "OSError"), and its lines.  It is UTF-8 text.

StartsWith(s, prefix) == Len(s) >= Len(prefix) /\ SubSeq(s, 1, Len(prefix)) = prefix

\* str.strip(c) for one character c
RECURSIVE LStripChar(_, _)
LStripChar(s, c) == IF s # <<>> /\ Head(s) = c THEN LStripChar(Tail(s), c) ELSE s

RECURSIVE RStripChar(_, _)
RStripChar(s, c) ==
    IF s # <<>> /\ s[Len(s)] = c THEN RStripChar(SubSeq(s, 1, Len(s) - 1), c) ELSE s

StripChar(s, c) == LStripChar(RStripChar(s, c), c)

VersionIdPrefix == <<"V", "E", "R", "S", "I", "O", "N", "_", "I", "D", "=">>

\* line.split("=", 1)[1].strip().strip('"').strip("'")
value_of(line) == StripChar(StripChar(Strip(Split1(line, "=")[2]), "\""), "'")

\* scanning from the last line to the first: the last VERSION_ID= line wins
RECURSIVE scan_last_match(_)
scan_last_match(lines) ==
    IF lines = <<>> THEN None
    ELSE IF StartsWith(Strip(lines[Len(lines)]), VersionIdPrefix)
    THEN Str(value_of(Strip(lines[Len(lines)])))
    ELSE scan_last_match(SubSeq(lines, 1, Len(lines) - 1))

\* for line in file_handle: the first stripped line that starts with
\* VERSION_ID= gives version_id, and the loop ends
RECURSIVE scan(_)
scan(lines) ==
    IF lines = <<>> THEN None
    ELSE IF StartsWith(Strip(Head(lines)), VersionIdPrefix)
    THEN Str(value_of(Strip(Head(lines))))
    ELSE scan(Tail(lines))

\* version_id after the block under path.exists(): an OSError of open() or of
\* reading is passed over and leaves None
version_id_of(file) ==
    IF file.exists = "yes" /\ file.read = "ok" THEN scan(file.lines) ELSE None

\* str(int(major)) for a string of digits: leading zeros go
RECURSIVE IntText(_)
IntText(major) ==
    IF Len(major) > 1 /\ Head(major) = "0" THEN IntText(Tail(major)) ELSE major

DetectionError == Raised("ValueError", [msg |-> "Unable to detect VERSION_ID"])
MajorError(version_id) ==
    Raised("ValueError", [msg |-> "Unable to parse major version", version_id |-> version_id])

\* major = version_id.split(".", 1)[0]; not major.isdigit() raises
KeyOfMajor(major, version_id) ==
    IF ~AllDigits(major) THEN MajorError(version_id)
    ELSE Returned(<<"e", "l">> \o IntText(major))

\* if not version_id: raise
DetectFrom(version_id) ==
    IF version_id = None \/ version_id = Str(<<>>) THEN DetectionError
    ELSE KeyOfMajor(Split1(version_id.s, ".")[1], version_id.s)

\* detect_target_major(os_release_path)
detect_target_major(file) ==
    IF file.exists = "OSError" THEN Raised("OSError", None)
    ELSE DetectFrom(version_id_of(file))

MaxOsLines == 3

\* a line of the file: a margin of whitespace, a key, "=", and a value made of a
\* major, the rest after it, and a quote on both sides
OsLine(margin, key, quote, major, rest) ==
    [margin |-> margin, key |-> key, quote |-> quote, major |-> major, rest |-> rest]

VersionId == <<"V", "E", "R", "S", "I", "O", "N", "_", "I", "D">>
Version == <<"V", "E", "R", "S", "I", "O", "N">>
VersionIdx == <<"V", "E", "R", "S", "I", "O", "N", "_", "I", "D", "X">>
DoubleQuote == <<"\"">>
SingleQuote == <<"'">>

OsLines ==
    { OsLine(<<>>, VersionId, DoubleQuote, <<"9">>, <<".", "4">>),
      OsLine(<<>>, VersionId, <<>>, <<"0", "9">>, <<>>),
      OsLine(<<" ">>, VersionId, SingleQuote, <<"8">>, <<".", "1", "0">>),
      OsLine(<<>>, VersionId, <<>>, <<"1", "0">>, <<>>),
      OsLine(<<>>, VersionId, <<>>, <<"x">>, <<".", "1">>),
      OsLine(<<>>, VersionId, DoubleQuote, <<>>, <<>>),
      OsLine(<<>>, VersionId, <<>>, <<>>, <<".", "5">>),
      OsLine(<<>>, Version, DoubleQuote, <<"8">>, <<".", "1">>),
      OsLine(<<>>, VersionIdx, <<>>, <<"7">>, <<>>) }

\* the text of a line
OsLineText(l) ==
    l.margin \o l.key \o <<"=">> \o l.quote \o l.major \o l.rest \o l.quote \o l.margin

OsLinesText(lines) == [i \in 1..Len(lines) |-> OsLineText(lines[i])]

OsReleaseFiles ==
    { [exists |-> "no", read |-> "ok", lines |-> <<>>],
      [exists |-> "OSError", read |-> "ok", lines |-> <<>>] }
    \cup [exists : {"yes"}, read : {"ok", "OSError"}, lines : SeqsUpTo(OsLines, MaxOsLines)]

InitDetect ==
    /\ os_release \in OsReleaseFiles
    /\ runtime_modern = TRUE
    /\ grouped_data = <<>>
    /\ target_major = El9
    /\ selected_date = Str(Feb17)
    /\ installed_dnf_modules_raw = <<>>
    /\ installed_packages = <<>>
    /\ outcome = Unset
    /\ rpm_lines = <<>>
    /\ output = <<>>
    /\ parsed = Unset
    /\ params = NoParams
    /\ rpm_status = "ok"
    /\ ended = Unset
    /\ pc = "detect"

\* one call of detect_target_major on the file
Detect ==
    /\ pc = "detect"
    /\ outcome' = detect_target_major([os_release EXCEPT !.lines = OsLinesText(@)])
    /\ pc' = "detected"
    /\ UNCHANGED <<runtime_modern, grouped_data, target_major, selected_date,
                   installed_dnf_modules_raw, installed_packages,
                   rpm_lines, output, parsed,
                   os_release, params, rpm_status, ended>>

NextDetect == Detect

SpecDetect == InitDetect /\ [][NextDetect]_vars

-----------------------------------------------------------------------------
(* the Ansible module: plugins/modules/appstream_check.py *)

\* datetime_date.today().isoformat(): the day of the run, zero-padded
Today == <<"2", "0", "2", "6", "-", "0", "3", "-", "0", "1">>

\* _, stdout, _ = run_command([...]); return parse_rpm_modularity_output(stdout)
collect_installed_from_rpm(ran) ==
    IF ran.ok THEN parse_rpm_modularity_output(ran.val) ELSE ran

\* module.fail_json(**kwargs) and module.exit_json(**kwargs) print the response
\* and leave the process with SystemExit, which no except clause of main names
FailJson(kwargs) == Raised("SystemExit", [by |-> "fail_json", kwargs |-> kwargs])
ExitJson(kwargs) == Raised("SystemExit", [by |-> "exit_json", kwargs |-> kwargs])

\* how a run of the module ended: with the response of fail_json or exit_json,
\* or with an exception that nothing caught; calls are the collaborators the
\* run has called, in order
ModuleEnded(raised, calls) ==
    IF raised.exc = "SystemExit"
    THEN [by |-> raised.arg.by, kwargs |-> raised.arg.kwargs, calls |-> calls]
    ELSE [by |-> "exception", kwargs |-> [exc |-> raised.exc], calls |-> calls]

\* module.run_command(command, check_rc=True): a command that cannot be started
\* or returns a non-zero code ends the module with fail_json
run_command(status, lines) ==
    IF status = "ok" THEN Returned(QueryOutput(lines))
    ELSE FailJson([msg |-> status, rc |-> 1])

\* try: return detect_target_major(); except ValueError: module.fail_json(msg)
_detect_target_major(detected) ==
    IF detected.ok \/ detected.exc # "ValueError" THEN detected
    ELSE FailJson([msg |-> detected.arg])

\* try: return collect_installed_from_rpm(...); except ValueError: fail_json(msg)
_run_rpm_modularity(collected) ==
    IF collected.ok \/ collected.exc # "ValueError" THEN collected
    ELSE FailJson([msg |-> collected.arg])

\* try: parse_date(selected_date); except ValueError: module.fail_json(msg)
ValidatedDate(checked) ==
    IF checked.ok \/ checked.exc # "ValueError" THEN checked
    ELSE FailJson([msg |-> checked.arg])

\* the response of the module after an evaluation that returned
ModuleResponse(result, date) ==
    [changed |-> FALSE,
     appstream_check_result |-> result.appstream_check_result,
     packages_to_remove |-> result.packages_to_remove,
     date |-> date]

MatchMessage == "Detected matching AppStream entries on target."
UnknownTargetMessage == "target_major not found in grouped_data."

\* except KeyError: fail_json; if fail_on_match and any_match: fail_json with the
\* response; else exit_json with the response
ModuleEvaluated(result, date, target, fail_on_match, calls) ==
    IF ~result.ok
    THEN IF result.exc = "KeyError"
         THEN ModuleEnded(FailJson([msg |-> UnknownTargetMessage, target_major |-> target]),
                          calls)
         ELSE ModuleEnded(result, calls)
    ELSE IF fail_on_match /\ result.val.appstream_check_result.any_match
    THEN ModuleEnded(FailJson([msg |-> MatchMessage] @@ ModuleResponse(result.val, date)),
                     calls)
    ELSE ModuleEnded(ExitJson(ModuleResponse(result.val, date)), calls)

ModuleWithInventory(inventory, date, target, fail_on_match, table, modern, calls) ==
    IF ~inventory.ok THEN ModuleEnded(inventory, calls)
    ELSE ModuleEvaluated(
             evaluate_appstream_check(table, target, date, inventory.val.modules_raw,
                                      inventory.val.installed_packages, modern),
             date, target, fail_on_match, Append(calls, "evaluate_appstream_check"))

ModuleWithDate(checked, date, target, fail_on_match, table, status, lines, modern, calls) ==
    IF ~checked.ok THEN ModuleEnded(checked, calls)
    ELSE ModuleWithInventory(
             _run_rpm_modularity(collect_installed_from_rpm(run_command(status, lines))),
             date, target, fail_on_match, table, modern, Append(calls, "run_command"))

\* the module had it queried rpm before it validated the date
ModuleQueryBeforeDate(target, date, fail_on_match, table, status, lines, modern, calls) ==
    IF ~target.ok THEN ModuleEnded(target, calls)
    ELSE IF ~run_command(status, lines).ok
    THEN ModuleEnded(run_command(status, lines), Append(calls, "run_command"))
    ELSE IF ~ValidatedDate(parse_date(date, modern)).ok
    THEN ModuleEnded(ValidatedDate(parse_date(date, modern)),
                     Append(Append(calls, "run_command"), "parse_date"))
    ELSE ModuleWithInventory(
             _run_rpm_modularity(collect_installed_from_rpm(run_command(status, lines))),
             date, target.val, fail_on_match, table, modern,
             Append(Append(calls, "run_command"), "parse_date"))

ModuleWithTarget(target, date, fail_on_match, table, status, lines, modern, calls) ==
    IF ~target.ok THEN ModuleEnded(target, calls)
    ELSE ModuleWithDate(ValidatedDate(parse_date(date, modern)), date, target.val,
                        fail_on_match, table, status, lines, modern,
                        Append(calls, "parse_date"))

\* module.params["date"] or datetime_date.today().isoformat()
DateOrToday(date) == IF Truthy(date) THEN date ELSE Str(Today)

\* main of the module, with the parameters p that AnsibleModule accepted
module_main(p, table, file, status, lines, modern) ==
    IF Truthy(p.target_major)
    THEN ModuleWithTarget(Returned(p.target_major.s), DateOrToday(p.date), p.fail_on_match,
                          table, status, lines, modern, <<>>)
    ELSE ModuleWithTarget(_detect_target_major(detect_target_major(file)),
                          DateOrToday(p.date), p.fail_on_match,
                          table, status, lines, modern, <<"detect_target_major">>)

\* the parameters of a task: target_major and date are optional strings
ModuleParams ==
    [target_major : {None, Str(El9), Str(El8)},
     date : {None, Str(Feb17), Str(Garbage), Str(TooBig)},
     fail_on_match : BOOLEAN]

\* reference tables of a run: empty, without el9, with everything in el9 retired,
\* with nothing in el9, and with an end date in el9 too big for date()
MainTables ==
    { <<>>,
      (El8 :> OtherRecord),
      (El9 :> OtherRecord),
      (El9 :> [package |-> <<>>, dnf_module |-> <<>>]),
      (El9 :> [package |-> <<[name |-> Str(A), end_date |-> Str(TooBig)]>>]) }

\* /etc/os-release of a run: missing, not to be looked at, of release 9.4, of a
\* release that is no number, and not to be read
MainOsFiles ==
    { NoOsRelease,
      [exists |-> "OSError", read |-> "ok", lines |-> <<>>],
      [exists |-> "yes", read |-> "ok",
       lines |-> <<OsLine(<<>>, VersionId, DoubleQuote, <<"9">>, <<".", "4">>)>>],
      [exists |-> "yes", read |-> "ok",
       lines |-> <<OsLine(<<>>, VersionId, <<>>, <<"x">>, <<".", "1">>)>>],
      [exists |-> "yes", read |-> "OSError",
       lines |-> <<OsLine(<<>>, VersionId, DoubleQuote, <<"9">>, <<".", "4">>)>>] }

\* what rpm lists in a run: nothing, a retired package, a package of a retired
\* stream, a package that is not in the tables, and a line without a label
MainListings ==
    { <<>>,
      <<Line(A, <<NoneLabel>>)>>,
      <<Line(B, <<A, <<"1">>, <<"c">>>>)>>,
      <<Line(<<"x">>, <<NoneLabel>>)>>,
      <<Line(A, <<NoneLabel>>), Line(<<"x">>, <<>>)>> }

\* the rpm command ran, returned a non-zero code, or could not be started
RpmStatuses == {"ok", "failed", "missing"}

InitModule ==
    /\ params \in ModuleParams
    /\ grouped_data \in MainTables
    /\ os_release \in MainOsFiles
    /\ rpm_status \in RpmStatuses
    /\ rpm_lines \in MainListings
    /\ runtime_modern = TRUE
    /\ target_major = El9
    /\ selected_date = Str(Feb17)
    /\ installed_dnf_modules_raw = <<>>
    /\ installed_packages = <<>>
    /\ outcome = Unset
    /\ output = <<>>
    /\ parsed = Unset
    /\ ended = Unset
    /\ pc = "main"

\* one run of the module
ModuleMain ==
    /\ pc = "main"
    /\ ended' = module_main(params, grouped_data,
                            [os_release EXCEPT !.lines = OsLinesText(@)],
                            rpm_status, rpm_lines, runtime_modern)
    /\ pc' = "exited"
    /\ UNCHANGED <<runtime_modern, grouped_data, target_major, selected_date,
                   installed_dnf_modules_raw, installed_packages, outcome,
                   rpm_lines, output, parsed, os_release, params, rpm_status>>

NextModule == ModuleMain

SpecModule == InitModule /\ [][NextModule]_vars

-----------------------------------------------------------------------------
(* the command line: scripts/appstream_check_standalone.py *)

\* what yaml.safe_load makes of the data file: nothing of a text that is no
\* YAML, None of an empty document, a list, or a mapping d
NotYaml == [t |-> "invalid"]
YamlList == [t |-> "list"]
Mapping(d) == [t |-> "dict", d |-> d]

AppstreamCheckGrouped ==
    <<"a", "p", "p", "s", "t", "r", "e", "a", "m", "_", "c", "h", "e", "c", "k", "_",
      "g", "r", "o", "u", "p", "e", "d">>

\* the mapping under "appstream_check_grouped" when there is one, else the
\* mapping itself, else ValueError
GroupedDataOf(content) ==
    IF content.t # "dict" THEN Raised("ValueError", None)
    ELSE IF Get(content.d, AppstreamCheckGrouped) # None
    THEN Returned(content.d[AppstreamCheckGrouped])
    ELSE Returned(content.d)

\* with path.open(...): content = yaml.safe_load(file_handle) or {}
_load_grouped_data(file) ==
    IF file.open # "ok" THEN Raised("OSError", None)
    ELSE IF file.content = NotYaml THEN Raised("YAMLError", None)
    ELSE IF file.content = None THEN GroupedDataOf(Mapping(<<>>))
    ELSE GroupedDataOf(file.content)

\* subprocess.run(command, check=True, capture_output=True, text=True)
_run_command(status, lines) ==
    IF status = "ok" THEN Returned(QueryOutput(lines))
    ELSE IF status = "failed" THEN Raised("CalledProcessError", None)
    ELSE Raised("OSError", None)

NothingPrinted == [format |-> "none"]

\* what _print_text_output prints of the payload
_print_text_output(payload) ==
    [format |-> "text",
     target_major |-> payload.appstream_check_result.target_major,
     date |-> payload.date,
     matched_packages |-> payload.appstream_check_result.matched_packages,
     matched_dnf_modules |-> payload.appstream_check_result.matched_dnf_modules,
     packages_to_remove |-> payload.packages_to_remove]

\* json.dumps(payload, sort_keys=True), yaml.safe_dump(payload, sort_keys=False),
\* or the text
_print_payload(payload, output_format) ==
    IF output_format = "json"
    THEN [format |-> "json",
          keys |-> <<"appstream_check_result", "date", "packages_to_remove">>,
          document |-> payload]
    ELSE IF output_format = "yaml"
    THEN [format |-> "yaml",
          keys |-> <<"date", "appstream_check_result", "packages_to_remove">>,
          document |-> payload]
    ELSE _print_text_output(payload)

\* the payload of _collect_payload
Payload(result, date) ==
    [date |-> date,
     appstream_check_result |-> result.appstream_check_result,
     packages_to_remove |-> result.packages_to_remove]

\* how a run of main ended: it returned a code, having printed to the two
\* streams, or it raised
CliReturned(code, stdout, stderr, calls) ==
    [by |-> "return", code |-> code, stdout |-> stdout, stderr |-> stderr, calls |-> calls]
CliRaised(exc, calls) ==
    [by |-> "exception", exc |-> exc, stdout |-> NothingPrinted, calls |-> calls]

\* except KeyError, except subprocess.CalledProcessError, except (ValueError,
\* OSError): a message on stderr and return 1; any other exception leaves main
CliFailed(raised, calls) ==
    IF raised.exc = "KeyError"
    THEN CliReturned(1, NothingPrinted, [msg |-> UnknownTargetMessage, key |-> raised.arg],
                     calls)
    ELSE IF raised.exc \in {"CalledProcessError", "ValueError", "OSError"}
    THEN CliReturned(1, NothingPrinted, [msg |-> raised.exc], calls)
    ELSE CliRaised(raised.exc, calls)

\* _print_payload(...); return 2 if fail_on_match and any_match, else 0
CliEvaluated(result, date, args, calls) ==
    IF ~result.ok THEN CliFailed(result, calls)
    ELSE CliReturned(IF args.fail_on_match /\ result.val.appstream_check_result.any_match
                     THEN 2 ELSE 0,
                     _print_payload(Payload(result.val, date), args.output_format),
                     <<>>, calls)

CliWithInventory(inventory, date, target, table, args, modern, calls) ==
    IF ~inventory.ok THEN CliFailed(inventory, calls)
    ELSE CliEvaluated(
             evaluate_appstream_check(table, target, date, inventory.val.modules_raw,
                                      inventory.val.installed_packages, modern),
             date, args, Append(calls, "evaluate_appstream_check"))

CliWithDate(checked, date, target, table, args, status, lines, modern, calls) ==
    IF ~checked.ok THEN CliFailed(checked, calls)
    ELSE CliWithInventory(collect_installed_from_rpm(_run_command(status, lines)),
                          date, target, table, args, modern, Append(calls, "run_command"))

CliWithTarget(target, date, table, args, status, lines, modern, calls) ==
    IF ~target.ok THEN CliFailed(target, calls)
    ELSE CliWithDate(parse_date(date, modern), date, target.val, table, args,
                     status, lines, modern, Append(calls, "parse_date"))

\* _collect_payload from the loaded data on
CliWithData(loaded, args, file, status, lines, modern) ==
    IF ~loaded.ok THEN CliFailed(loaded, <<>>)
    ELSE IF Truthy(args.target_major)
    THEN CliWithTarget(Returned(args.target_major.s), DateOrToday(args.date), loaded.val,
                       args, status, lines, modern, <<>>)
    ELSE CliWithTarget(detect_target_major(file), DateOrToday(args.date), loaded.val,
                       args, status, lines, modern, <<"detect_target_major">>)

\* main of the command line, with the arguments args that argparse accepted
cli_main(args, file, status, lines, modern) ==
    CliWithData(_load_grouped_data(args.grouped_data_file), args, file, status, lines,
                modern)

\* the data file of a run: missing, no YAML, empty, a list, a table without
\* el9, a table with everything in el9 retired, a table with nothing in el9
\* under the key appstream_check_grouped, a table with an end date too big
DataFiles ==
    { [open |-> "OSError", content |-> None],
      [open |-> "ok", content |-> NotYaml],
      [open |-> "ok", content |-> None],
      [open |-> "ok", content |-> YamlList],
      [open |-> "ok", content |-> Mapping(El8 :> OtherRecord)],
      [open |-> "ok", content |-> Mapping(El9 :> OtherRecord)],
      [open |-> "ok", content |->
          Mapping(AppstreamCheckGrouped :> (El9 :> [package |-> <<>>, dnf_module |-> <<>>]))],
      [open |-> "ok", content |->
          Mapping(El9 :> [package |-> <<[name |-> Str(A), end_date |-> Str(TooBig)]>>])] }

CliArgs ==
    [grouped_data_file : DataFiles,
     target_major : {None, Str(El9), Str(El8)},
     date : {None, Str(Garbage), Str(TooBig)},
     output_format : {"text", "json", "yaml"},
     fail_on_match : BOOLEAN]

CliOsFiles == {f \in MainOsFiles : f.read = "ok" /\ (f.lines = <<>> \/ f.lines[1].quote # <<>>)}

CliListings == {l \in MainListings : l = <<>> \/ l[1].name = A \/ l[1].name = B}

InitCli ==
    /\ params \in CliArgs
    /\ os_release \in CliOsFiles
    /\ rpm_status \in RpmStatuses
    /\ rpm_lines \in CliListings
    /\ runtime_modern = TRUE
    /\ grouped_data = <<>>
    /\ target_major = El9
    /\ selected_date = Str(Feb17)
    /\ installed_dnf_modules_raw = <<>>
    /\ installed_packages = <<>>
    /\ outcome = Unset
    /\ output = <<>>
    /\ parsed = Unset
    /\ ended = Unset
    /\ pc = "main"

\* one run of the command line
CliMain ==
    /\ pc = "main"
    /\ ended' = cli_main(params, [os_release EXCEPT !.lines = OsLinesText(@)],
                         rpm_status, rpm_lines, runtime_modern)
    /\ pc' = "returned"
    /\ UNCHANGED <<runtime_modern, grouped_data, target_major, selected_date,
                   installed_dnf_modules_raw, installed_packages, outcome,
                   rpm_lines, output, parsed, os_release, params, rpm_status>>

NextCli == CliMain

SpecCli == InitCli /\ [][NextCli]_vars

-----------------------------------------------------------------------------
(* the two entry points side by side *)

\* a run is one of the command line when its arguments name a data file
IsCliRun == "grouped_data_file" \in DOMAIN params

InitMains == InitModule \/ InitCli

RunModule == ~IsCliRun /\ ModuleMain

RunCli == IsCliRun /\ CliMain

NextMains == RunModule \/ RunCli

SpecMains == InitMains /\ [][NextMains]_vars

-----------------------------------------------------------------------------
(* what the claims speak of *)

Called == pc = "done"
HasRecord == target_major \in DOMAIN grouped_data /\ grouped_data[target_major] # None
TargetRecord == grouped_data[target_major]
PackageRefs == IF "package" \in DOMAIN TargetRecord THEN TargetRecord.package ELSE <<>>
ModuleRefs == IF "dnf_module" \in DOMAIN TargetRecord THEN TargetRecord.dnf_module ELSE <<>>

Result == outcome.val.appstream_check_result
Removal == outcome.val.packages_to_remove

\* the value is a date, or a text that parse_date reads as one
IsADate(v) == IsDate(v) \/ (IsStr(v) /\ parse_date(v, runtime_modern).ok)
DateOf(v) == IF IsDate(v) THEN v ELSE parse_date(v, runtime_modern).val
CutoffIsValid == IsADate(selected_date)

\* position of a date in the calendar
DayNumber(d) == d.y * 10000 + d.m * 100 + d.d

HasText(entry, field) ==
    field \in DOMAIN entry /\ IsStr(entry[field]) /\ entry[field].s # <<>>

HasEndDate(entry) == "end_date" \in DOMAIN entry /\ IsADate(entry.end_date)

\* the entry's end date is a calendar date strictly earlier than the cutoff
EndsBefore(entry) ==
    HasEndDate(entry) /\ DayNumber(DateOf(entry.end_date)) < DayNumber(DateOf(selected_date))

\* the entry's end date is a calendar date equal to or later than the cutoff
EndsOnOrAfter(entry) ==
    HasEndDate(entry) /\ DayNumber(DateOf(entry.end_date)) >= DayNumber(DateOf(selected_date))

IsNamed(entry, p) == HasText(entry, "name") /\ entry.name.s = p

IsStream(entry, k) ==
    /\ HasText(entry, "name")
    /\ HasText(entry, "stream")
    /\ k = entry.name.s \o <<":">> \o entry.stream.s

\* strictly ascending: sorted, and no element twice
IsAscending(q) == \A i \in 1..(Len(q) - 1) : StrLess(q[i], q[i + 1])

Entries(refs) == {refs[i] : i \in 1..Len(refs)}

\* an end date whose text makes date() raise OverflowError
EndDateTooBig(entry) ==
    /\ "end_date" \in DOMAIN entry
    /\ IsStr(entry.end_date)
    /\ ~parse_date(entry.end_date, runtime_modern).ok
    /\ parse_date(entry.end_date, runtime_modern).exc = "OverflowError"

-----------------------------------------------------------------------------
(* C1 *)

\* C1: for every reference table that has the target key, every valid cutoff and
\* every inventory, the call returns a result whose matched_packages is, in
\* ascending order and without duplicates, exactly the installed non-modular
\* package names that are names of `package` entries ending before the cutoff.
C1_MatchedPackages ==
    (Called /\ HasRecord /\ CutoffIsValid) =>
        /\ outcome.ok
        /\ IsAscending(Result.matched_packages)
        /\ Range(Result.matched_packages) =
              {p \in Range(installed_packages) :
                 \E e \in Entries(PackageRefs) : IsNamed(e, p) /\ EndsBefore(e)}

-----------------------------------------------------------------------------
(* C2 *)

\* C2: in every result, matched_dnf_modules holds, each once, exactly the installed
\* stream keys that are "<name>:<stream>" of a dnf_module entry with a non-empty
\* name, a non-empty stream and an end date before the cutoff; and whenever the
\* call raises, the cause is the cutoff, the lookup of the target key or an end
\* date, never a name or a stream.
C2_MatchedModules ==
    Called =>
        /\ outcome.ok =>
              /\ Cardinality(Range(Result.matched_dnf_modules))
                    = Len(Result.matched_dnf_modules)
              /\ Range(Result.matched_dnf_modules) =
                    {k \in DOMAIN installed_dnf_modules_raw :
                       \E e \in Entries(ModuleRefs) : IsStream(e, k) /\ EndsBefore(e)}
        /\ ~outcome.ok =>
              \/ ~CutoffIsValid
              \/ ~HasRecord
              \/ \E e \in Entries(PackageRefs) \cup Entries(ModuleRefs) : EndDateTooBig(e)

\* C2 witness: a result with a matched stream, while a retired entry without a
\* stream is in the record and its would-be key "a:" is installed
C2_Witness ==
    /\ Called /\ outcome.ok
    /\ Result.matched_dnf_modules = <<KeyB1>>
    /\ KeyANoStream \in DOMAIN installed_dnf_modules_raw
    /\ \E e \in Entries(ModuleRefs) :
          HasText(e, "name") /\ ~HasText(e, "stream") /\ EndsBefore(e)

-----------------------------------------------------------------------------
(* C3 *)

\* C3: in every result, matched_dnf_modules_packages is, ascending and without
\* duplicates, exactly the union of the package lists the inventory records
\* under the keys of matched_dnf_modules; a package recorded under an installed
\* key that is not matched is in it only if a matched key records it too.
C3_MatchedModulePackages ==
    (Called /\ outcome.ok) =>
        /\ IsAscending(Result.matched_dnf_modules_packages)
        /\ Range(Result.matched_dnf_modules_packages) =
              UNION {Range(installed_dnf_modules_raw[k]) :
                       k \in Range(Result.matched_dnf_modules)}
        /\ \A k \in DOMAIN installed_dnf_modules_raw \ Range(Result.matched_dnf_modules) :
              \A p \in Range(installed_dnf_modules_raw[k]) :
                 p \in Range(Result.matched_dnf_modules_packages) =>
                    \E m \in Range(Result.matched_dnf_modules) :
                       p \in Range(installed_dnf_modules_raw[m])

\* C3 witness: a stream is matched, and a package of an installed stream that is
\* not matched stays out
C3_Witness ==
    /\ Called /\ outcome.ok
    /\ Result.matched_dnf_modules # <<>>
    /\ \E k \in DOMAIN installed_dnf_modules_raw \ Range(Result.matched_dnf_modules) :
          \E p \in Range(installed_dnf_modules_raw[k]) :
             p \notin Range(Result.matched_dnf_modules_packages)

-----------------------------------------------------------------------------
(* C4 *)

-----------------------------------------------------------------------------
(* C5 *)

\* C5: in every result, any_match is true exactly when matched_packages or
\* matched_dnf_modules is not empty.
C5_AnyMatch ==
    (Called /\ outcome.ok) =>
        /\ Result.any_match \in BOOLEAN
        /\ Result.any_match <=> (Result.matched_packages # <<>>
                                    \/ Result.matched_dnf_modules # <<>>)

\* C5 witness: no package is matched, a stream is, and any_match is true
C5_Witness ==
    /\ Called /\ outcome.ok
    /\ Result.matched_packages = <<>>
    /\ Result.matched_dnf_modules # <<>>
    /\ Result.any_match

-----------------------------------------------------------------------------
(* C6 *)

\* C6: retirement is strict and by the calendar.  For every entry of the target
\* record whose end date is a date, _is_retired says retired exactly when that
\* date is strictly earlier than the cutoff; and in every result each matched
\* package and each matched stream has an entry ending strictly before the
\* cutoff, so a name or stream whose entries all end on or after the cutoff is
\* not matched.
C6_StrictRetirement ==
    (Called /\ CutoffIsValid /\ HasRecord) =>
        /\ \A e \in Entries(PackageRefs) \cup Entries(ModuleRefs) :
              HasEndDate(e) =>
                 _is_retired(e.end_date, DateOf(selected_date), runtime_modern)
                    = Returned(EndsBefore(e))
        /\ outcome.ok =>
              /\ \A p \in Range(Result.matched_packages) :
                    \E e \in Entries(PackageRefs) : IsNamed(e, p) /\ EndsBefore(e)
              /\ \A k \in Range(Result.matched_dnf_modules) :
                    \E e \in Entries(ModuleRefs) : IsStream(e, k) /\ EndsBefore(e)
              /\ \A p \in Range(installed_packages) :
                    (\A e \in Entries(PackageRefs) : IsNamed(e, p) => EndsOnOrAfter(e))
                       => p \notin Range(Result.matched_packages)
              /\ \A k \in DOMAIN installed_dnf_modules_raw :
                    (\A e \in Entries(ModuleRefs) : IsStream(e, k) => EndsOnOrAfter(e))
                       => k \notin Range(Result.matched_dnf_modules)

\* C6 witness: the cutoff is the text 2026-02-17; package b, installed, ends on
\* that very day and is not matched; package a ends on 2026-2-1, a text that
\* sorts after the cutoff's, and is matched
C6_Witness ==
    /\ Called /\ outcome.ok
    /\ selected_date = Str(Feb17)
    /\ B \in Range(installed_packages)
    /\ \A e \in Entries(PackageRefs) : IsNamed(e, B) => e.end_date = Date(2026, 2, 17)
    /\ \E e \in Entries(PackageRefs) : IsNamed(e, B)
    /\ \E e \in Entries(PackageRefs) : IsNamed(e, A) /\ e.end_date = Str(Feb1Unpadded)
    /\ StrLess(Feb17, Feb1Unpadded)
    /\ Result.matched_packages = <<A>>

-----------------------------------------------------------------------------
(* C7 *)

\* the entry has no end date: none at all, None, "", or a text that is no date
NoEndDate(entry) == ~HasEndDate(entry)

\* C7: whatever the (valid) cutoff, the call on a table that has the target key
\* returns a result, no entry's end date making it raise; and a package or
\* stream whose entries all have an end date that is null, empty or unparseable
\* is in no matched set.
C7_NoEndDateNeverMatched ==
    (Called /\ HasRecord /\ CutoffIsValid) =>
        /\ outcome.ok
        /\ \A p \in Range(installed_packages) :
              (\A e \in Entries(PackageRefs) : IsNamed(e, p) => NoEndDate(e))
                 => p \notin Range(Result.matched_packages)
        /\ \A k \in DOMAIN installed_dnf_modules_raw :
              (\A e \in Entries(ModuleRefs) : IsStream(e, k) => NoEndDate(e))
                 => k \notin Range(Result.matched_dnf_modules)

-----------------------------------------------------------------------------
(* C8 *)

TargetAbsent == target_major \notin DOMAIN grouped_data

\* the record of the target key has no fields or no entries
RecordIsEmpty == HasRecord /\ PackageRefs = <<>> /\ ModuleRefs = <<>>

NoMatches ==
    /\ outcome.ok
    /\ Result.matched_packages = <<>>
    /\ Result.matched_dnf_modules = <<>>
    /\ Result.matched_dnf_modules_packages = <<>>
    /\ Result.any_match = FALSE
    /\ Removal = <<>>

\* C8 as stated: whenever the target key is absent the call raises KeyError
\* carrying the key and returns no result, and a key with an empty or field-less
\* record gives a result with no matches.
C8_UnknownTarget ==
    Called =>
        /\ TargetAbsent => outcome = Raised("KeyError", target_major)
        /\ RecordIsEmpty => NoMatches

\* C8 amended: when the cutoff is a date or a text parse_date reads as a date, an
\* absent target key makes the call raise KeyError carrying the key, and a key
\* with an empty or field-less record gives a result with no matches; with any
\* cutoff, an absent key never gives a result.
C8_UnknownTargetValidCutoff ==
    Called =>
        /\ TargetAbsent => ~outcome.ok
        /\ (TargetAbsent /\ CutoffIsValid) => outcome = Raised("KeyError", target_major)
        /\ (RecordIsEmpty /\ CutoffIsValid) => NoMatches

\* C8 witness: the key is absent from a table that has another key, the cutoff
\* is valid, and the call raised KeyError
C8_Witness ==
    /\ Called /\ TargetAbsent /\ CutoffIsValid
    /\ DOMAIN grouped_data # {}
    /\ ~outcome.ok /\ outcome.exc = "KeyError"

-----------------------------------------------------------------------------
(* C9 *)

\* C9: a cutoff that is a string and no valid date makes the call raise
\* ValueError carrying the string as it was given, on every table that has the
\* target key and with every inventory; a cutoff that is a date is taken as it
\* is, so the date never makes the call raise.
C9_InvalidCutoff ==
    (Called /\ HasRecord) =>
        /\ (IsStr(selected_date) /\ ~CutoffIsValid)
              => outcome = Raised("ValueError", selected_date)
        /\ IsDate(selected_date)
              => /\ parse_date(selected_date, runtime_modern) = Returned(selected_date)
                 /\ ~outcome.ok => outcome.exc # "ValueError"


-----------------------------------------------------------------------------
(* the parser *)

Parsed == pc = "parsed"
IsBlankLine(line) ==
    line.label = <<>> /\ \A i \in 1..Len(line.name) : line.name[i] \in {" ", "\t"}
IsNonModular(line) == line.name # <<>> /\ line.label = <<NoneLabel>>
IsModular(line) ==
    /\ line.name # <<>>
    /\ Len(line.label) >= 2
    /\ line.label[1] # <<>>
    /\ line.label[2] # <<>>
IsWellFormed(line) == IsNonModular(line) \/ IsModular(line)
AllWellFormed ==
    \A i \in 1..Len(rpm_lines) : IsBlankLine(rpm_lines[i]) \/ IsWellFormed(rpm_lines[i])
KeyOf(line) == line.label[1] \o <<":">> \o line.label[2]
ModularAt == {i \in 1..Len(rpm_lines) : IsModular(rpm_lines[i])}
NonModularAt == {i \in 1..Len(rpm_lines) : IsNonModular(rpm_lines[i])}

\* the names of the lines of stream key k, in the order of the lines
RECURSIVE NamesOfKey(_, _)
NamesOfKey(lines, k) ==
    IF lines = <<>> THEN <<>>
    ELSE IF IsModular(Head(lines)) /\ KeyOf(Head(lines)) = k
    THEN <<Head(lines).name>> \o NamesOfKey(Tail(lines), k)
    ELSE NamesOfKey(Tail(lines), k)

\* C10: when every non-blank line of the text is well formed, the parser
\* returns the names of the lines labelled exactly (none), without duplicates
\* and in ascending order, and a mapping whose keys are the first two label
\* components of the other lines joined by a colon, each with the names of its
\* lines in input order, repeats kept.
C10_ParsedInventory ==
    (Parsed /\ AllWellFormed) =>
        /\ parsed.ok
        /\ IsAscending(parsed.val.installed_packages)
        /\ Range(parsed.val.installed_packages)
               = {rpm_lines[i].name : i \in NonModularAt}
        /\ DOMAIN parsed.val.modules_raw = {KeyOf(rpm_lines[i]) : i \in ModularAt}
        /\ \A k \in DOMAIN parsed.val.modules_raw :
               parsed.val.modules_raw[k] = NamesOfKey(rpm_lines, k)

\* a text with a three-component label, a stream with two lines and a
\* non-modular line has been parsed
C10_Witness ==
    /\ Parsed /\ AllWellFormed /\ parsed.ok
    /\ \E i \in ModularAt : Len(rpm_lines[i].label) = 3
    /\ \E k \in DOMAIN parsed.val.modules_raw : Len(parsed.val.modules_raw[k]) = 2
    /\ parsed.val.installed_packages # <<>>


-----------------------------------------------------------------------------
(* C11 *)

\* a line with one column only
IsMalformedLine(line) == line.label = <<>> /\ ~IsBlankLine(line)

\* a line whose label is neither (none) nor name:stream
IsBadLabel(line) ==
    /\ line.name # <<>>
    /\ line.label # <<>>
    /\ line.label # <<NoneLabel>>
    /\ (Len(line.label) < 2 \/ line.label[1] = <<>> \/ line.label[2] = <<>>)

BadAt == {i \in 1..Len(rpm_lines) : IsMalformedLine(rpm_lines[i]) \/ IsBadLabel(rpm_lines[i])}
FirstBad == rpm_lines[CHOOSE i \in BadAt : \A j \in BadAt : i <= j]

\* C11: the parser is all or nothing.  When the text has a line with one column
\* or a label that is neither (none) nor name:stream, the call raises ValueError
\* and returns no inventory, however many well-formed lines come first; the
\* error is the one of the first such line: "Unexpected rpm output line" with
\* the line, or "Invalid MODULARITYLABEL format" with the package and the label.
C11_AllOrNothing ==
    (Parsed /\ BadAt # {}) =>
        /\ ~parsed.ok
        /\ IsMalformedLine(FirstBad) =>
              parsed = Raised("ValueError",
                              [msg |-> "Unexpected rpm output line",
                               line |-> FirstBad.name])
        /\ IsBadLabel(FirstBad) =>
              parsed = Raised("ValueError",
                              [msg |-> "Invalid MODULARITYLABEL format",
                               package |-> FirstBad.name,
                               label |-> JoinColon(FirstBad.label)])

\* C11 witness: two well-formed lines, one non-modular and one modular, then a
\* label with an empty stream; the call raised
C11_Witness ==
    /\ Parsed /\ Len(rpm_lines) = 3
    /\ IsNonModular(rpm_lines[1])
    /\ IsModular(rpm_lines[2])
    /\ IsBadLabel(rpm_lines[3]) /\ Len(rpm_lines[3].label) = 2
    /\ ~parsed.ok
    /\ parsed.arg.msg = "Invalid MODULARITYLABEL format"


-----------------------------------------------------------------------------
(* C12 *)

Empty == Returned([modules_raw |-> <<>>, installed_packages |-> <<>>])

\* the lines without the blank ones
NonBlankLines == SelectSeq(rpm_lines, LAMBDA line : ~IsBlankLine(line))

\* C12: blank lines, empty or of whitespace only, never count.  A text of blank
\* lines only, and the empty text, gives an empty package list and an empty
\* mapping; and any text gives the result, or the error, of the text without its
\* blank lines.
C12_BlankLines ==
    Parsed =>
        /\ NonBlankLines = <<>> => parsed = Empty
        /\ parsed = parse_rpm_modularity_output(QueryOutput(NonBlankLines))

\* C12 witness: an empty line and a line of whitespace around a well-formed
\* line, and the inventory of that line alone
C12_Witness ==
    /\ Parsed /\ Len(rpm_lines) = 3
    /\ rpm_lines[1] = Line(<<>>, <<>>)
    /\ IsModular(rpm_lines[2])
    /\ rpm_lines[3] = Line(<<" ", "\t">>, <<>>)
    /\ parsed.ok
    /\ parsed.val.modules_raw # <<>>


-----------------------------------------------------------------------------
(* C13 *)

NonModularNames == Range(parsed.val.installed_packages)
ModularNames == PackagesOf(parsed.val.modules_raw)

\* C13 as stated: in every successful parse no package name is both in the
\* non-modular list and in the list of a stream key.
C13_DisjointViews ==
    (Parsed /\ parsed.ok) => NonModularNames \cap ModularNames = {}

\* C13 amended: the views are disjoint by line, not by name.  In every
\* successful parse each line puts its package in one view: a (none) line in the
\* non-modular list, any other line in the list of its stream key; a name is
\* in the non-modular list only if a (none) line has it and in a stream's list
\* only if a line of that stream has it, so a name is in both views exactly when
\* the text has it on a (none) line and on a modular line.
C13_DisjointByLine ==
    (Parsed /\ parsed.ok) =>
        /\ NonModularNames = {rpm_lines[i].name : i \in NonModularAt}
        /\ \A k \in DOMAIN parsed.val.modules_raw :
              Range(parsed.val.modules_raw[k])
                 = {rpm_lines[i].name : i \in {j \in ModularAt : KeyOf(rpm_lines[j]) = k}}
        /\ ModularAt # {} => parsed.val.modules_raw # <<>>
        /\ NonModularNames \cap ModularNames
              = {rpm_lines[i].name : i \in NonModularAt}
                   \cap {rpm_lines[i].name : i \in ModularAt}

\* C13 witness: package a is installed once without a module and once from a
\* stream, package b from a stream only; a is in both views and b in one
C13_Witness ==
    /\ Parsed /\ parsed.ok
    /\ A \in NonModularNames \cap ModularNames
    /\ B \in ModularNames \ NonModularNames


-----------------------------------------------------------------------------
(* C14 *)

DateDone == pc = "date_done"

\* the number a component writes, -1 when it writes none; 2147483648 is read as
\* CIntMax, above every year of the calendar as well
ComponentValue(c) ==
    CASE c = <<"2", "0", "2", "6">> -> 2026
      [] c = <<"2", "0", "2", "4">> -> 2024
      [] c = <<"2", "6">> -> 26
      [] c = <<"0">> -> 0
      [] c = <<"2", "1", "4", "7", "4", "8", "3", "6", "4", "8">> -> CIntMax
      [] c \in {<<"2">>, <<"0", "2">>, <<"+", "2">>} -> 2
      [] c = <<"1", "3">> -> 13
      [] c \in {<<"1">>, <<"0", "1">>} -> 1
      [] c = <<"2", "9">> -> 29
      [] c = <<"3", "0">> -> 30
      [] c = <<"3", "1">> -> 31
      [] OTHER -> -1

\* year, month and day of a day of the calendar
IsRealDate(y, m, d) ==
    /\ y \in 1..9999
    /\ m \in 1..12
    /\ d >= 1
    /\ d <= (CASE m \in {1, 3, 5, 7, 8, 10, 12} -> 31
               [] m \in {4, 6, 9, 11} -> 30
               [] OTHER -> IF y % 4 = 0 /\ (y % 100 # 0 \/ y % 400 = 0) THEN 29 ELSE 28)

\* what the claim says of the text "<y>-<m>-<d>"
DateOfEncoding(y, m, d) ==
    IF IsRealDate(ComponentValue(y), ComponentValue(m), ComponentValue(d))
    THEN Returned(Date(ComponentValue(y), ComponentValue(m), ComponentValue(d)))
    ELSE Raised("ValueError", selected_date)

\* C14: parse_date gives a padded YYYY-MM-DD text and every unpadded writing of
\* the same year, month and day the same date; it returns a date object as it
\* is; and for every string that is not three numbers separated by "-" that
\* make a day of the calendar, the empty string among them, it raises ValueError
\* carrying the value it was given.
C14_ParseDate ==
    DateDone =>
        /\ IsDate(selected_date) => outcome = Returned(selected_date)
        /\ \A y \in YearTexts, m \in MonthTexts, d \in DayTexts, w \in Margins :
              selected_date = Str(Encoding(y, m, d, w)) => outcome = DateOfEncoding(y, m, d)
        /\ selected_date \in {Str(s) : s \in OtherTexts}
              => outcome = Raised("ValueError", selected_date)


-----------------------------------------------------------------------------
(* C15 *)

Detected == pc = "detected"
IsReadable == os_release.exists = "yes" /\ os_release.read = "ok"
VersionAt == {i \in 1..Len(os_release.lines) : os_release.lines[i].key = VersionId}
FirstVersionLine == os_release.lines[CHOOSE i \in VersionAt : \A j \in VersionAt : i <= j]

\* the integer a major writes, as its decimal text; <<>> when it writes none
MajorNumber(major) ==
    CASE major \in {<<"9">>, <<"0", "9">>} -> <<"9">>
      [] major = <<"8">> -> <<"8">>
      [] major = <<"1", "0">> -> <<"1", "0">>
      [] OTHER -> <<>>

\* C15: only the first VERSION_ID= line of a readable file counts.  When the
\* part of its value before the first "." (the value trimmed and without its
\* quotes) is a number, the result is "el" followed by that number without
\* leading zeros; when it is not, the call raises; the lines after it and the
\* lines with other keys change nothing in either case.
C15_FirstVersionId ==
    (Detected /\ IsReadable /\ VersionAt # {}) =>
        IF MajorNumber(FirstVersionLine.major) # <<>>
        THEN outcome = Returned(<<"e", "l">> \o MajorNumber(FirstVersionLine.major))
        ELSE ~outcome.ok

\* C15 witness: after a line with another key the first VERSION_ID is 09 and
\* the next one is 10: the result is el9
C15_Witness ==
    /\ Detected /\ IsReadable /\ Len(os_release.lines) = 3
    /\ os_release.lines[1].key = VersionIdx
    /\ os_release.lines[2].key = VersionId /\ os_release.lines[2].major = <<"0", "9">>
    /\ os_release.lines[3].key = VersionId /\ os_release.lines[3].major = <<"1", "0">>
    /\ outcome = Returned(El9)

-----------------------------------------------------------------------------
(* C16 *)

\* C16: the call raises the same "Unable to detect VERSION_ID" error when the
\* file does not exist, when it cannot be read and when it has no VERSION_ID=
\* line; it raises the "Unable to parse major version" error when the value
\* of the first VERSION_ID= line has something else than a number before its
\* first "."; it returns no key in any of these cases.
C16_DetectionErrors ==
    Detected =>
        /\ (~IsReadable \/ VersionAt = {}) => outcome = DetectionError
        /\ (IsReadable /\ VersionAt # {} /\ MajorNumber(FirstVersionLine.major) = <<>>) =>
              /\ ~outcome.ok
              /\ outcome.exc = "ValueError"
              /\ FirstVersionLine.major \o FirstVersionLine.rest # <<>> =>
                    outcome = MajorError(FirstVersionLine.major \o FirstVersionLine.rest)


-----------------------------------------------------------------------------
(* C17 *)

\* the lists the caller passed in: the package list, the lists of the stream
\* mapping, the lists of the records of the table
ArgumentLists ==
    {Argument("installed_packages"), Argument("installed_dnf_modules_raw[key]"),
     Argument("grouped_data[key][package]"), Argument("grouped_data[key][dnf_module]")}

-----------------------------------------------------------------------------
(* C18: how the Ansible module ends *)

ModuleExited == pc = "exited"

\* the steps of a run, each computed from the inputs of the run
RunDate == DateOrToday(params.date)
RunTarget ==
    IF Truthy(params.target_major) THEN Returned(params.target_major.s)
    ELSE detect_target_major([os_release EXCEPT !.lines = OsLinesText(@)])
RunInventory == parse_rpm_modularity_output(QueryOutput(rpm_lines))
RunBeforeEvaluation ==
    /\ RunTarget.ok
    /\ parse_date(RunDate, runtime_modern).ok
    /\ rpm_status = "ok"
    /\ RunInventory.ok
RunEvaluation ==
    evaluate_appstream_check(grouped_data, RunTarget.val, RunDate,
                             RunInventory.val.modules_raw,
                             RunInventory.val.installed_packages, runtime_modern)
EvaluationSucceeded == RunBeforeEvaluation /\ RunEvaluation.ok
RunAnyMatch == RunEvaluation.val.appstream_check_result.any_match

ResponseKeys == {"changed", "appstream_check_result", "packages_to_remove", "date"}

\* C18: the module ends with fail_json exactly when a step of the run failed or
\* fail_on_match is set and any_match is true, and with exit_json otherwise;
\* after an evaluation that succeeded the response carries changed = false, the
\* result, the removal list and the date; changed is never true
C18_ModuleEnding ==
    ModuleExited =>
        /\ ended.by \in {"fail_json", "exit_json"}
        /\ ended.by = "fail_json"
               <=> (~EvaluationSucceeded \/ (params.fail_on_match /\ RunAnyMatch))
        /\ EvaluationSucceeded =>
               /\ ResponseKeys \subseteq DOMAIN ended.kwargs
               /\ ended.kwargs.changed = FALSE
               /\ ended.kwargs.appstream_check_result
                      = RunEvaluation.val.appstream_check_result
               /\ ended.kwargs.packages_to_remove = RunEvaluation.val.packages_to_remove
               /\ ended.kwargs.date = RunDate
        /\ "changed" \in DOMAIN ended.kwargs => ended.kwargs.changed = FALSE

\* the runs that end with an exception nothing catches: the OverflowError of
\* parse_date (C14, C7) and the OSError of detect_target_major (C16)
ModuleCrashed == ModuleExited /\ ended.by = "exception"


-----------------------------------------------------------------------------
(* C19: the exit codes of the command line *)

CliExited == pc = "returned"

\* the steps of _collect_payload, each computed from the inputs of the run; the
\* first of them that raises, raises out of _collect_payload
CliData == _load_grouped_data(params.grouped_data_file)
CliEvaluation ==
    evaluate_appstream_check(CliData.val, RunTarget.val, RunDate,
                             RunInventory.val.modules_raw,
                             RunInventory.val.installed_packages, runtime_modern)
CliCollected ==
    IF ~CliData.ok THEN CliData
    ELSE IF ~RunTarget.ok THEN RunTarget
    ELSE IF ~parse_date(RunDate, runtime_modern).ok THEN parse_date(RunDate, runtime_modern)
    ELSE IF rpm_status # "ok" THEN _run_command(rpm_status, rpm_lines)
    ELSE IF ~RunInventory.ok THEN RunInventory
    ELSE CliEvaluation

\* the failures of collecting that the claim lists
ListedFailures == {"KeyError", "CalledProcessError", "ValueError", "OSError"}
CollectingFailed == ~CliCollected.ok /\ CliCollected.exc \in ListedFailures
FailOnMatchAndAnyMatch ==
    /\ CliCollected.ok
    /\ params.fail_on_match
    /\ CliCollected.val.appstream_check_result.any_match

\* C19: main returns 2 exactly when --fail-on-match is set and any_match is
\* true, returns 1 exactly when collecting the payload failed with an unknown
\* target key, a failed query command, ValueError or OSError, having printed no
\* payload to standard output, and returns 0 in every other case
C19_CliExitCodes ==
    CliExited =>
        /\ ended.by = "return"
        /\ ended.code = 2 <=> FailOnMatchAndAnyMatch
        /\ ended.code = 1 <=> CollectingFailed
        /\ ended.code = 1 => ended.stdout = NothingPrinted
        /\ ended.code = 0 <=> (~FailOnMatchAndAnyMatch /\ ~CollectingFailed)

\* the runs in which main raises instead of returning: the OverflowError of
\* parse_date (C14, C7) and the error of a data file that is no YAML
CliCrashed == CliExited /\ ended.by = "exception"


-----------------------------------------------------------------------------
(* C20: the order of the lookup and the cutoff *)

MalformedCutoff == IsStr(selected_date) /\ ~CutoffIsValid

\* C20 as stated: the target key is looked up before the cutoff is normalised,
\* so a call with an absent key and a malformed cutoff string raises KeyError
\* and not the date's error.
C20_LookupBeforeCutoff ==
    (Called /\ TargetAbsent /\ MalformedCutoff) =>
        outcome = Raised("KeyError", target_major)

\* C20 amended: the cutoff is normalised before the target key is looked up, so
\* a call with an absent key and a malformed cutoff string raises what
\* parse_date raises for that string and never KeyError; a string parse_date
\* rejects as no date gives ValueError carrying the string.
C20_CutoffBeforeLookup ==
    (Called /\ TargetAbsent /\ MalformedCutoff) =>
        /\ ~outcome.ok
        /\ outcome.exc # "KeyError"
        /\ outcome = parse_date(selected_date, runtime_modern)
        /\ selected_date = Str(Garbage) => outcome = Raised("ValueError", selected_date)

\* C20 witness: the key is absent, the cutoff is a string that is no date, and
\* the call raised ValueError carrying the string
C20_Witness ==
    /\ Called /\ TargetAbsent
    /\ selected_date = Str(Garbage)
    /\ outcome = Raised("ValueError", Str(Garbage))


-----------------------------------------------------------------------------
(* C21: the date is validated before rpm is queried *)

RunEnded == pc \in {"exited", "returned"}

Calls == Range(ended.calls)

\* index of the first call of that name, 0 when there is none
RECURSIVE CallAt(_, _)
CallAt(name, i) ==
    IF i > Len(ended.calls) THEN 0
    ELSE IF ended.calls[i] = name THEN i ELSE CallAt(name, i + 1)

RunDateInvalid == ~parse_date(RunDate, runtime_modern).ok

\* the run did not end well: the module without exit_json, the command line
\* without a payload on standard output
EndedInFailure ==
    IF IsCliRun THEN ended.stdout = NothingPrinted
    ELSE ended.by # "exit_json"

\* C21: in a run of the module and in a run of the command line with an invalid
\* date the run ends in failure, rpm has not been queried and
\* evaluate_appstream_check has not been called; rpm is queried and the
\* evaluator called only after parse_date has been called on the date; and
\* detect_target_major is called only when no target key was supplied
C21_DateBeforeQuery ==
    RunEnded =>
        /\ RunDateInvalid =>
               /\ EndedInFailure
               /\ "run_command" \notin Calls
               /\ "evaluate_appstream_check" \notin Calls
        /\ "run_command" \in Calls =>
               /\ CallAt("parse_date", 1) > 0
               /\ CallAt("parse_date", 1) < CallAt("run_command", 1)
        /\ "evaluate_appstream_check" \in Calls =>
               /\ CallAt("run_command", 1) > 0
               /\ CallAt("run_command", 1) < CallAt("evaluate_appstream_check", 1)
        /\ "detect_target_major" \in Calls => ~Truthy(params.target_major)

\* C21 witness: a run of the module with a target key and a date that is no
\* date, on a host where rpm would have run, ended with fail_json after
\* parse_date alone
C21_Witness ==
    /\ RunEnded /\ ~IsCliRun
    /\ params.date = Str(Garbage)
    /\ Truthy(params.target_major)
    /\ rpm_status = "ok"
    /\ ended.by = "fail_json"
    /\ ended.calls = <<"parse_date">>


-----------------------------------------------------------------------------
(* C22: the two namespaces *)

\* the names installed from a modular stream
ModularPackages ==
    UNION {Range(installed_dnf_modules_raw[k]) : k \in DOMAIN installed_dnf_modules_raw}

OnlyNonModular(p) == p \in Range(installed_packages) /\ p \notin ModularPackages
OnlyModular(p) == p \in ModularPackages /\ p \notin Range(installed_packages)

RetiredPackageEntry(p) ==
    HasRecord /\ \E e \in Entries(PackageRefs) : IsNamed(e, p) /\ EndsBefore(e)
RetiredModuleEntryNamed(p) ==
    HasRecord /\ \E e \in Entries(ModuleRefs) :
                    IsNamed(e, p) /\ HasText(e, "stream") /\ EndsBefore(e)

\* the installed stream keys the package comes from
StreamsOf(p) ==
    {k \in DOMAIN installed_dnf_modules_raw : p \in Range(installed_dnf_modules_raw[k])}

\* C22: in every result, a name installed only as a plain package is matched
\* only through a retired `package` entry of that name, never through a
\* dnf_module entry: without such an entry it is in none of the lists; and a
\* name installed only from modular streams is never in matched_packages,
\* whatever `package` entries there are, and is in the removal list only when
\* one of its own stream keys is in matched_dnf_modules
C22_IndependentNamespaces ==
    (Called /\ outcome.ok) =>
        \A p \in {A, B} :
            /\ OnlyNonModular(p) =>
                   /\ p \in Range(Result.matched_packages) => RetiredPackageEntry(p)
                   /\ p \notin Range(Result.matched_dnf_modules_packages)
                   /\ p \in Range(Removal) => p \in Range(Result.matched_packages)
            /\ OnlyModular(p) =>
                   /\ p \notin Range(Result.matched_packages)
                   /\ p \in Range(Removal) =>
                          /\ StreamsOf(p) \cap Range(Result.matched_dnf_modules) # {}
                          /\ p \in Range(Result.matched_dnf_modules_packages)

\* C22 witness: a is installed as a plain package only and a retired dnf_module
\* entry is named a, b is installed from a stream only and a retired `package`
\* entry is named b, and the result matches neither
C22_Witness ==
    /\ Called /\ outcome.ok
    /\ OnlyNonModular(A) /\ RetiredModuleEntryNamed(A) /\ ~RetiredPackageEntry(A)
    /\ OnlyModular(B) /\ RetiredPackageEntry(B)
    /\ A \notin Range(Removal) /\ B \notin Range(Removal)
    /\ Result.any_match = FALSE


-----------------------------------------------------------------------------
(* C23: the result grows with the cutoff *)

\* the valid cutoffs that are not later than the cutoff of the call
EarlierCutoffs ==
    {d \in ValidCutoffs \cup RuntimeCutoffs :
        IsADate(d) /\ DayNumber(DateOf(d)) <= DayNumber(DateOf(selected_date))}

\* the call with the same table, key and inventory and the cutoff d
EvaluatedAt(d) ==
    evaluate_appstream_check(grouped_data, target_major, d,
                             installed_dnf_modules_raw, installed_packages,
                             runtime_modern)
ResultAt(d) == EvaluatedAt(d).val.appstream_check_result

\* C23: for a fixed table, target key and inventory and two valid cutoffs
\* d1 <= d2, the call with d1 returns a result exactly when the call with d2
\* does, and then matched_packages, matched_dnf_modules,
\* matched_dnf_modules_packages and the removal list of d1 are subsets of those
\* of d2, and any_match of d1 implies any_match of d2
C23_MonotoneInCutoff ==
    (Called /\ CutoffIsValid) =>
        \A d \in EarlierCutoffs :
            /\ EvaluatedAt(d).ok <=> outcome.ok
            /\ outcome.ok =>
                   /\ Range(ResultAt(d).matched_packages)
                          \subseteq Range(Result.matched_packages)
                   /\ Range(ResultAt(d).matched_dnf_modules)
                          \subseteq Range(Result.matched_dnf_modules)
                   /\ Range(ResultAt(d).matched_dnf_modules_packages)
                          \subseteq Range(Result.matched_dnf_modules_packages)
                   /\ Range(EvaluatedAt(d).val.packages_to_remove) \subseteq Range(Removal)
                   /\ ResultAt(d).any_match => Result.any_match

\* C23 witness: the call returned a result with a matched package and a matched
\* stream, and with an earlier valid cutoff the same call matches nothing
C23_Witness ==
    /\ Called /\ CutoffIsValid /\ outcome.ok
    /\ Result.matched_packages # <<>>
    /\ Result.matched_dnf_modules # <<>>
    /\ \E d \in EarlierCutoffs :
           /\ DayNumber(DateOf(d)) < DayNumber(DateOf(selected_date))
           /\ EvaluatedAt(d).ok
           /\ ~ResultAt(d).any_match

=============================================================================
